---- MODULE Spec2Model ----
(***************************************************************************)
(* find-keywords-in-text: the POST / handler of src/routes/index.js and    *)
(* the JSON formatter and uncaughtException handler of src/index.js.       *)
(*                                                                         *)
(* One request is followed from its arrival to the end of its handling.    *)
(* JavaScript strings are sequences of one-character strings; JavaScript   *)
(* values carry a type tag t.                                              *)
(*                                                                         *)
(* The libraries are taken at their documented behaviour: _.unique keeps   *)
(* first occurrences, _.difference filters by membership, async.map and    *)
(* async.parallel hand over their results by task index, restify's         *)
(* req.header gives undefined for a header the request lacks and restify   *)
(* hands an exception thrown under a route to 'uncaughtException'.         *)
(* No stage passes an error to its callback, so the err branches of lines  *)
(* 66, 123, 136, 155, 175 and 180 are never taken; a stage fails by        *)
(* throwing.                                                               *)
(***************************************************************************)
EXTENDS Integers, Sequences, FiniteSets, TLC

VARIABLES req, pc, tokenized_text, taskResult, kwResult, responses, thrown, fatal

vars == <<req, pc, tokenized_text, taskResult, kwResult, responses, thrown, fatal>>

-----------------------------------------------------------------------------
(* Bounds of the model.                                                    *)

\* words of a request text, where the keyword lists vary
MaxWords == 2
\* words of a request text, where the texts vary
MaxTextWords == 3
\* entries of a keywords array
MaxKeywords == 2
\* characters of a distance given as a string
MaxDistLen == 3
\* media ranges of an Accept header
MaxAccept == 2

-----------------------------------------------------------------------------
(* JavaScript values.                                                      *)

Undefined == [t |-> "undefined"]
Null == [t |-> "null"]
NaN == [t |-> "NaN"]
False == [t |-> "boolean", b |-> FALSE]
\* the number n / 10^e
Num(n, e) == [t |-> "number", n |-> n, e |-> e]
Str(s) == [t |-> "string", s |-> s]
Arr(a) == [t |-> "array", a |-> a]

Pow10(e) == IF e = 0 THEN 1 ELSE IF e = 1 THEN 10 ELSE IF e = 2 THEN 100
            ELSE IF e = 3 THEN 1000 ELSE IF e = 4 THEN 10000 ELSE 100000

Digits == {"0", "1", "2", "3", "4", "5", "6", "7", "8", "9"}

DigitVal(c) == CASE c = "0" -> 0 [] c = "1" -> 1 [] c = "2" -> 2 [] c = "3" -> 3
                 [] c = "4" -> 4 [] c = "5" -> 5 [] c = "6" -> 6 [] c = "7" -> 7
                 [] c = "8" -> 8 [] c = "9" -> 9

SeqsUpTo(S, n) == UNION {[1..k -> S] : k \in 0..n}

RECURSIVE DigitsValue(_)
\* the value of a sequence of decimal digits
DigitsValue(ds) ==
  IF ds = <<>> THEN 0
  ELSE 10 * DigitsValue(SubSeq(ds, 1, Len(ds) - 1)) + DigitVal(ds[Len(ds)])

RECURSIVE DigitPrefix(_)
\* the longest prefix of s made of decimal digits
DigitPrefix(s) ==
  IF s = <<>> \/ Head(s) \notin Digits THEN <<>>
  ELSE <<Head(s)>> \o DigitPrefix(Tail(s))

\* parseInt of a string (radix 10): optional sign, then the longest run of
\* digits; NaN when there is none. What follows the digits is ignored.
ParseIntStr(s) ==
  LET neg == s # <<>> /\ Head(s) = "-"
      body == IF neg THEN Tail(s) ELSE s
      ds == DigitPrefix(body)
  IN IF ds = <<>> THEN NaN
     ELSE Num((IF neg THEN -1 ELSE 1) * DigitsValue(ds), 0)

\* ToNumber of a string: the whole string must be a decimal literal
\* (sign, digits, optional point and digits); the empty string is 0.
StrToNumber(s) ==
  LET neg == s # <<>> /\ Head(s) = "-"
      body == IF neg THEN Tail(s) ELSE s
      ip == DigitPrefix(body)
      rest == SubSeq(body, Len(ip) + 1, Len(body))
      hasPoint == rest # <<>> /\ Head(rest) = "."
      fp == IF hasPoint THEN DigitPrefix(Tail(rest)) ELSE <<>>
      tail == IF hasPoint THEN SubSeq(rest, Len(fp) + 2, Len(rest)) ELSE rest
      sign == IF neg THEN -1 ELSE 1
  IN IF s = <<>> THEN Num(0, 0)
     ELSE IF tail # <<>> \/ (ip = <<>> /\ fp = <<>>) THEN NaN
     ELSE Num(sign * (DigitsValue(ip) * Pow10(Len(fp)) + DigitsValue(fp)), Len(fp))

RECURSIVE ArrayToString(_)
\* ToString of an array of strings: the elements joined by commas
ArrayToString(a) ==
  IF a = <<>> THEN <<>>
  ELSE IF Len(a) = 1 THEN a[1].s
  ELSE a[1].s \o <<",">> \o ArrayToString(Tail(a))

\* ToNumber of the values a request field can hold
ToNumber(v) ==
  CASE v.t = "number" -> v
    [] v.t = "string" -> StrToNumber(v.s)
    [] v.t = "array" -> StrToNumber(ArrayToString(v.a))
    [] v.t = "null" -> Num(0, 0)
    [] OTHER -> NaN

\* truncation of n / 10^e towards zero
Trunc(v) ==
  LET p == Pow10(v.e)
  IN Num(IF v.n >= 0 THEN v.n \div p ELSE -((-v.n) \div p), 0)

\* parseInt(v): v is turned into a string first; a number written in
\* decimal notation parses to its integer part.
ParseInt(v) ==
  CASE v.t = "string" -> ParseIntStr(v.s)
    [] v.t = "array" -> ParseIntStr(ArrayToString(v.a))
    [] v.t = "number" -> Trunc(v)
    [] OTHER -> NaN

\* x == y on numbers (NaN equals nothing)
NumEq(x, y) ==
  x.t = "number" /\ y.t = "number" /\ x.n * Pow10(y.e) = y.n * Pow10(x.e)

\* x <= y on numbers (false when either is NaN)
NumLeq(x, y) ==
  x.t = "number" /\ y.t = "number" /\ x.n * Pow10(y.e) <= y.n * Pow10(x.e)

\* a != b where a is a number or NaN: b is converted to a number
LooseNotEqual(a, b) == ~NumEq(a, ToNumber(b))

\* a <= b where one side is a number: the other is converted to a number
LessOrEqual(a, b) == NumLeq(ToNumber(a), ToNumber(b))

-----------------------------------------------------------------------------
(* Strings, tokens and the pipeline's pure stages.                          *)

\* String.prototype.toLowerCase on one character
LowerChar(c) ==
  CASE c = "A" -> "a" [] c = "N" -> "n" [] OTHER -> c

\* String.prototype.toLowerCase
ToLowerCase(s) == [i \in 1..Len(s) |-> LowerChar(s[i])]

\* a word character of the tokenizer's pattern
IsWordChar(c) == c \in {"a", "n", "A", "N"} \cup Digits

RECURSIVE SplitWords(_, _)
\* text.split(pattern): cur is the piece being read
SplitWords(s, cur) ==
  IF s = <<>> THEN <<cur>>
  ELSE IF IsWordChar(Head(s)) THEN SplitWords(Tail(s), Append(cur, Head(s)))
  ELSE IF Tail(s) # <<>> /\ ~IsWordChar(Head(Tail(s))) THEN SplitWords(Tail(s), cur)
  ELSE <<cur>> \o SplitWords(Tail(s), <<>>)

\* tokenizer.tokenize(text) of natural.WordTokenizer: split on runs of
\* non-word characters, without the empty pieces
Tokenize(s) ==
  LET pieces == SplitWords(s, <<>>)
  IN [i \in 1..Len(SelectSeq(pieces, LAMBDA w : w # <<>>)) |->
        Str(SelectSeq(pieces, LAMBDA w : w # <<>>)[i])]

\* the english list of the stopwords package, as far as the model's
\* alphabet can spell it, and two entries it cannot
stopwords ==
  {Str(<<"a">>), Str(<<"a", "n">>), Str(<<"t", "h", "e">>), Str(<<"i", "s">>)}

\* isString(text, cb): the value handed to cb
isString(text) ==
  IF text.t = "string" THEN Str(ToLowerCase(text.s)) ELSE False

\* async.map(tokenized_text, isString, ...): the results, by index
itemsToLowercase(toks) == [i \in 1..Len(toks) |-> isString(toks[i])]

RECURSIVE Unique(_, _)
\* _.unique(array): seen is the result so far
Unique(arr, seen) ==
  IF arr = <<>> THEN seen
  ELSE IF \E i \in 1..Len(seen) : seen[i] = Head(arr) THEN Unique(Tail(arr), seen)
  ELSE Unique(Tail(arr), Append(seen, Head(arr)))

\* _.unique keeping the last occurrence of a value instead of the first
RECURSIVE UniqueLast(_)
UniqueLast(arr) ==
  IF arr = <<>> THEN <<>>
  ELSE IF \E i \in 2..Len(arr) : arr[i] = Head(arr) THEN UniqueLast(Tail(arr))
  ELSE <<Head(arr)>> \o UniqueLast(Tail(arr))

uniqueItemsLastOccurrence(toks) == UniqueLast(toks)

\* uniqueItems(tokenized_text, cb): the value handed to cb
uniqueItems(toks) == Unique(toks, <<>>)

\* stopWordCleaning that drops a token when it contains a stopword
stopWordCleaningSubstring(toks) ==
  SelectSeq(toks, LAMBDA v :
    ~\E w \in stopwords : \E from \in 1..(IF v.t = "string" THEN Len(v.s) ELSE 0) :
        /\ from + Len(w.s) - 1 <= Len(v.s)
        /\ SubSeq(v.s, from, from + Len(w.s) - 1) = w.s)

\* stopWordCleaning(tokenized_text, cb): _.difference(tokenized_text, stopwords)
stopWordCleaning(toks) == SelectSeq(toks, LAMBDA v : v \notin stopwords)

Min2(a, b) == IF a <= b THEN a ELSE b

\* natural.LevenshteinDistance on strings: the Levenshtein distance with
\* insertion, deletion and substitution at cost 1 each
LevenshteinDistance(s, u) ==
  LET d[i \in 0..Len(s), j \in 0..Len(u)] ==
        IF i = 0 THEN j
        ELSE IF j = 0 THEN i
        ELSE Min2(Min2(d[i - 1, j] + 1, d[i, j - 1] + 1),
                  d[i - 1, j - 1] + (IF s[i] = u[j] THEN 0 ELSE 1))
  IN d[Len(s), Len(u)]

\* whether natural.LevenshteinDistance(word1, word2) throws: it reads the
\* length of both arguments, which null and undefined do not have
LevenshteinThrows(word1, word2) ==
  word1.t \in {"null", "undefined"} \/ word2.t \in {"null", "undefined"}

\* the distance task comparing the keyword in lower case
calculateLevenshteinDistanceLowercased(keyword, item) ==
  [text |-> item, distance |-> LevenshteinDistance(ToLowerCase(keyword.s), item.s)]

\* the task of calculateKeywordDistance for one item: the value handed
\* to callback
calculateLevenshteinDistance(keyword, item) ==
  [text |-> item, distance |-> LevenshteinDistance(keyword.s, item.s)]

\* the filter of calculateKeywordDistance with < in place of <=
keywordFilterStrict(result, distance) ==
  SelectSeq(result, LAMBDA val : /\ LessOrEqual(Num(val.distance, 0), distance)
                                 /\ ~NumEq(Num(val.distance, 0), ToNumber(distance)))

\* result.filter(val.distance <= distance) of calculateKeywordDistance
keywordFilter(result, distance) ==
  SelectSeq(result, LAMBDA val : LessOrEqual(Num(val.distance, 0), distance))

\* the filter of the final callback keeping every keyword
matchedKeywordsAll(result) == result

\* result.filter(keyword.results.length > 0) of the final callback
matchedKeywords(result) ==
  SelectSeq(result, LAMBDA keyword : Len(keyword.results) > 0)

RECURSIVE Join(_, _)
\* Array.prototype.join of an array of strings
Join(arr, sep) ==
  IF arr = <<>> THEN <<>>
  ELSE IF Len(arr) = 1 THEN arr[1].s
  ELSE arr[1].s \o sep \o Join(Tail(arr), sep)

-----------------------------------------------------------------------------
(* The formatter and the uncaughtException handler of src/index.js.         *)

RECURSIVE Concat(_)
\* a sequence of strings as one string
Concat(parts) == IF parts = <<>> THEN "" ELSE Head(parts) \o Concat(Tail(parts))

RECURSIVE JoinStrings(_, _)
JoinStrings(parts, sep) ==
  IF parts = <<>> THEN ""
  ELSE IF Len(parts) = 1 THEN parts[1]
  ELSE parts[1] \o sep \o JoinStrings(Tail(parts), sep)

DigitChar(d) ==
  CASE d = 0 -> "0" [] d = 1 -> "1" [] d = 2 -> "2" [] d = 3 -> "3" [] d = 4 -> "4"
    [] d = 5 -> "5" [] d = 6 -> "6" [] d = 7 -> "7" [] d = 8 -> "8" [] d = 9 -> "9"

RECURSIVE NatToString(_)
NatToString(n) ==
  IF n < 10 THEN DigitChar(n) ELSE NatToString(n \div 10) \o DigitChar(n % 10)

Quote(str) == "\"" \o str \o "\""

\* JSON.stringify of a string or null
StringifyValue(v) == IF v.t = "string" THEN Quote(Concat(v.s)) ELSE "null"

StringifyMatch(m) ==
  "{\"text\":" \o StringifyValue(m.text)
    \o ",\"distance\":" \o NatToString(m.distance) \o "}"

StringifyKeyword(k) ==
  "{\"keyword\":" \o StringifyValue(k.keyword) \o ",\"results\":["
    \o JoinStrings([i \in 1..Len(k.results) |-> StringifyMatch(k.results[i])], ",")
    \o "]}"

\* JSON.stringify(body) of the three bodies the server sends
JSONStringify(body) ==
  IF "error" \in DOMAIN body THEN "{\"error\":" \o Quote(body.error) \o "}"
  ELSE IF "success" \in DOMAIN body THEN "{\"success\":false}"
  ELSE "{\"keywords\":["
         \o JoinStrings([i \in 1..Len(body.keywords) |->
                           StringifyKeyword(body.keywords[i])], ",")
         \o "],\"clean_text\":" \o StringifyValue(body.clean_text) \o "}"

RECURSIVE SkipSpaces(_)
SkipSpaces(h) == IF h # <<>> /\ Head(h) = " " THEN SkipSpaces(Tail(h)) ELSE h

RECURSIVE SplitAccept(_, _)
\* header.split(/, */) on a header given as a sequence of lexical atoms
\* (a media type, a parameter, "," or " "): cur is the piece being read
SplitAccept(h, cur) ==
  IF h = <<>> THEN <<cur>>
  ELSE IF Head(h) = "," THEN <<cur>> \o SplitAccept(SkipSpaces(Tail(h)), <<>>)
  ELSE SplitAccept(Tail(h), Append(cur, Head(h)))

\* formatters['application/json'](req, res, body), accept being
\* req.header('Accept'): undefined has no split method
formatter(accept, body) ==
  IF accept.t = "undefined" THEN [threw |-> TRUE]
  ELSE LET pieces == SplitAccept(accept.s, <<>>)
           sendPlainText == ~\E i \in 1..Len(pieces) : pieces[i] = <<"application/json">>
       IN [threw |-> FALSE,
           type |-> IF sendPlainText THEN "text/plain; charset=utf-8"
                    ELSE "application/json; charset=utf-8",
           body |-> JSONStringify(body)]

\* server.on('uncaughtException'): res.send(500, {success: false}), which
\* runs the formatter again; when that throws too nothing is sent
uncaughtException(err) ==
  LET f == formatter(req.accept, [success |-> FALSE])
  IN /\ thrown' = Append(thrown, err)
     /\ IF f.threw
        THEN fatal' = TRUE /\ responses' = responses
        ELSE /\ fatal' = fatal
             /\ responses' = Append(responses,
                  [status |-> 500, payload |-> [success |-> FALSE],
                   type |-> f.type, body |-> f.body])

\* res.send(status, payload) from the route
Send(status, payload) ==
  LET f == formatter(req.accept, payload)
  IN IF f.threw THEN uncaughtException("TypeError")
     ELSE /\ responses' = Append(responses,
                [status |-> status, payload |-> payload,
                 type |-> f.type, body |-> f.body])
          /\ UNCHANGED <<thrown, fatal>>

-----------------------------------------------------------------------------
(* The POST / route of src/routes/index.js.                                 *)

Pending == [t |-> "pending"]

NoTextMessage == "No text submitted to analyze!"
NoKeywordsMessage == "Keyword(s) are missing! Keywords should be passed as an array."
NoDistanceMessage == "Distance is missing or it isn't an unsigned integer value."

\* the three validation conditions of the route
TextMissing == req.text = Undefined
KeywordsMissing == req.keywords = Undefined \/ req.keywords.t # "array"
DistanceMissing ==
  \/ req.distance = Undefined
  \/ LooseNotEqual(ParseInt(req.distance), req.distance)
  \/ LessOrEqual(req.distance, Num(0, 0))

\* the order of the validation branches with keywords tested first
ValidationFailureKeywordsFirst ==
  IF KeywordsMissing THEN NoKeywordsMessage
  ELSE IF TextMissing THEN NoTextMessage
  ELSE IF DistanceMissing THEN NoDistanceMessage
  ELSE ""

\* the message of the first validation branch taken, "" when none is
ValidationFailure ==
  IF TextMissing THEN NoTextMessage
  ELSE IF KeywordsMissing THEN NoKeywordsMessage
  ELSE IF DistanceMissing THEN NoDistanceMessage
  ELSE ""

\* a validation branch: res.send(404, {error: ...}); next() is not called
Reject ==
  /\ pc = "request"
  /\ ValidationFailure # ""
  /\ Send(404, [error |-> ValidationFailure])
  /\ pc' = "done"
  /\ UNCHANGED <<req, tokenized_text, taskResult, kwResult>>

\* the else branch: async.waterfall calls getTokenizedText at once
GetTokenizedText ==
  /\ pc = "request"
  /\ ValidationFailure = ""
  /\ req.text.t = "string"
  /\ tokenized_text' = Tokenize(req.text.s)
  /\ pc' = "itemsToLowercase"
  /\ UNCHANGED <<req, taskResult, kwResult, responses, thrown, fatal>>

\* the else branch when tokenizer.tokenize throws: text has no split method
GetTokenizedTextThrows ==
  /\ pc = "request"
  /\ ValidationFailure = ""
  /\ req.text.t # "string"
  /\ uncaughtException("TypeError")
  /\ pc' = "done"
  /\ UNCHANGED <<req, tokenized_text, taskResult, kwResult>>

PostHandler == Reject \/ GetTokenizedText \/ GetTokenizedTextThrows

ItemsToLowercase ==
  /\ pc = "itemsToLowercase"
  /\ tokenized_text' = itemsToLowercase(tokenized_text)
  /\ pc' = "uniqueItems"
  /\ UNCHANGED <<req, taskResult, kwResult, responses, thrown, fatal>>

UniqueItems ==
  /\ pc = "uniqueItems"
  /\ tokenized_text' = uniqueItems(tokenized_text)
  /\ pc' = "stopWordCleaning"
  /\ UNCHANGED <<req, taskResult, kwResult, responses, thrown, fatal>>

StopWordCleaning ==
  /\ pc = "stopWordCleaning"
  /\ tokenized_text' = stopWordCleaning(tokenized_text)
  /\ pc' = "waterfallDone"
  /\ UNCHANGED <<req, taskResult, kwResult, responses, thrown, fatal>>

\* async.parallel storing a result in the first free slot, that is in
\* completion order
parallelStoreInCompletionOrder(results, index, value) ==
  LET free == {i \in 1..Len(results) : results[i] = Pending}
      first == CHOOSE i \in free : \A j \in free : i <= j
  IN [results EXCEPT ![first] = value]

\* async.parallel: the result of task number index is stored at index
parallelStore(results, index, value) == [results EXCEPT ![index] = value]

AllDone(results) == \A i \in 1..Len(results) : results[i] # Pending

\* the payload of the success response
successPayload(result) ==
  [keywords |-> matchedKeywords(result),
   clean_text |-> Str(Join(tokenized_text, <<" ">>))]

\* the entry cb receives for one keyword
keywordEntry(keyword, result) ==
  [keyword |-> keyword, results |-> keywordFilter(result, req.distance)]

\* the final callback of async.waterfall when async.parallel has nothing to
\* wait for: no keyword, or no token, so every task list is empty
WaterfallDoneNoTask ==
  /\ pc = "waterfallDone"
  /\ Len(req.keywords.a) = 0 \/ Len(tokenized_text) = 0
  /\ LET result == [k \in 1..Len(req.keywords.a) |->
                      keywordEntry(req.keywords.a[k], <<>>)]
     IN /\ kwResult' = result
        /\ Send(200, successPayload(result))
  /\ pc' = "done"
  /\ UNCHANGED <<req, tokenized_text, taskResult>>

\* the final callback of async.waterfall: one task per keyword, each with
\* one task per token
WaterfallDoneTasks ==
  /\ pc = "waterfallDone"
  /\ Len(req.keywords.a) > 0 /\ Len(tokenized_text) > 0
  /\ taskResult' = [k \in 1..Len(req.keywords.a) |->
                      [i \in 1..Len(tokenized_text) |-> Pending]]
  /\ kwResult' = [k \in 1..Len(req.keywords.a) |-> Pending]
  /\ pc' = "parallel"
  /\ UNCHANGED <<req, tokenized_text, responses, thrown, fatal>>

WaterfallDone == WaterfallDoneNoTask \/ WaterfallDoneTasks

\* a distance task whose natural.LevenshteinDistance throws
TaskThrows(k, i) ==
  /\ pc = "parallel"
  /\ taskResult[k][i] = Pending
  /\ LevenshteinThrows(req.keywords.a[k], tokenized_text[i])
  /\ uncaughtException("TypeError")
  /\ pc' = "done"
  /\ UNCHANGED <<req, tokenized_text, taskResult, kwResult>>

\* the callback of the distance task of keyword k and token i; the last
\* one of a keyword completes the keyword's task, and the last keyword's
\* task sends the response
TaskDone(k, i) ==
  /\ pc = "parallel"
  /\ taskResult[k][i] = Pending
  /\ ~LevenshteinThrows(req.keywords.a[k], tokenized_text[i])
  /\ LET value == calculateLevenshteinDistance(req.keywords.a[k], tokenized_text[i])
         result == parallelStore(taskResult[k], i, value)
         entries == IF AllDone(result)
                    THEN parallelStore(kwResult, k,
                           keywordEntry(req.keywords.a[k], result))
                    ELSE kwResult
     IN /\ taskResult' = [taskResult EXCEPT ![k] = result]
        /\ kwResult' = entries
        /\ IF AllDone(entries)
           THEN Send(200, successPayload(entries)) /\ pc' = "done"
           ELSE UNCHANGED <<responses, thrown, fatal, pc>>
  /\ UNCHANGED <<req, tokenized_text>>

\* async.parallel waits for every task and async does not say in which
\* order they call back: any pending task may be the next to complete
Task ==
  \E k \in 1..Len(taskResult) : \E i \in 1..Len(taskResult[k]) :
    TaskThrows(k, i) \/ TaskDone(k, i)

Next ==
  \/ PostHandler
  \/ ItemsToLowercase
  \/ UniqueItems
  \/ StopWordCleaning
  \/ WaterfallDone
  \/ Task

-----------------------------------------------------------------------------
(* The requests.                                                            *)

RECURSIVE JoinWords(_)
\* words separated by one space
JoinWords(ws) ==
  IF ws = <<>> THEN <<>>
  ELSE IF Len(ws) = 1 THEN ws[1]
  ELSE ws[1] \o <<" ">> \o JoinWords(Tail(ws))

WordPool == {<<"n", "a">>, <<"N", "a">>, <<"a">>, <<"n", "n">>}

\* no text, a text that is a number, and the texts of up to n words
Texts(n) ==
  {Undefined, Num(42, 0)}
    \cup {Str(JoinWords(ws)) : ws \in SeqsUpTo(WordPool, n)}

KeywordPool == {Str(<<"n", "a">>), Str(<<"N", "A">>)}

KeywordLists ==
  {Undefined, Str(<<"n", "a">>)}
    \cup {Arr(ks) : ks \in SeqsUpTo(KeywordPool, MaxKeywords)}

DistanceChars == {"0", "1", ".", "-", "a"}

Distances ==
  {Undefined, Null, Num(0, 0), Num(1, 0), Num(2, 0), Num(15, 1), Num(-1, 0),
   Arr(<<>>), Arr(<<Str(<<"1">>)>>), Arr(<<Str(<<"1">>), Str(<<"1">>)>>)}
    \cup {Str(s) : s \in SeqsUpTo(DistanceChars, MaxDistLen)}

AcceptJson == Str(<<"application/json">>)

MediaRanges ==
  {<<"application/json">>, <<"application/json", ";q=0.9">>, <<"*/*">>,
   <<"text/plain">>}

RECURSIVE JoinRanges(_, _)
JoinRanges(rs, sep) ==
  IF rs = <<>> THEN <<>>
  ELSE IF Len(rs) = 1 THEN rs[1]
  ELSE rs[1] \o sep \o JoinRanges(Tail(rs), sep)

AcceptHeaders ==
  {Undefined}
    \cup {Str(JoinRanges(rs, sep)) :
            rs \in SeqsUpTo(MediaRanges, MaxAccept) \ {<<>>},
            sep \in {<<",">>, <<",", " ">>}}

\* a few texts and keyword lists of every shape, well formed or not
SomeTexts ==
  {Undefined, Num(42, 0), Str(<<>>), Str(<<" ", "n", "a", ",", " ", "n", "n">>)}

SomeKeywordLists ==
  {Undefined, Str(<<"n", "a">>), Arr(<<>>), Arr(<<Str(<<"n", "a">>)>>),
   Arr(<<Null>>), Arr(<<Str(<<"N", "A">>), Null>>)}

InitWith(texts, keywordLists, distances, accepts) ==
  /\ req \in [text : texts, keywords : keywordLists,
              distance : distances, accept : accepts]
  /\ pc = "request"
  /\ tokenized_text = <<>>
  /\ taskResult = <<>>
  /\ kwResult = <<>>
  /\ responses = <<>>
  /\ thrown = <<>>
  /\ fatal = FALSE

\* every keyword list, a distance as a number and as a string
Init ==
  InitWith(Texts(MaxWords), KeywordLists, {Num(1, 0), Str(<<"2">>)}, {AcceptJson})

Spec == Init /\ [][Next]_vars

\* every text, with keyword lists of every shape
InitText ==
  InitWith(Texts(MaxTextWords), SomeKeywordLists, {Num(1, 0)}, {AcceptJson})

SpecText == InitText /\ [][Next]_vars

\* every distance, with texts and keyword lists of every shape
InitValidation ==
  InitWith(SomeTexts, SomeKeywordLists, Distances, {AcceptJson, Str(<<"*/*">>)})

SpecValidation == InitValidation /\ [][Next]_vars

\* every Accept header
InitFormat ==
  InitWith(SomeTexts, SomeKeywordLists, {Num(1, 0), Num(0, 0)}, AcceptHeaders)

SpecFormat == InitFormat /\ [][Next]_vars

-----------------------------------------------------------------------------
(* Vocabulary of the properties.                                            *)

Range(seq) == {seq[i] : i \in DOMAIN seq}

\* the first index of x in seq, 0 when it has none
FirstIndex(seq, x) ==
  IF x \in Range(seq) THEN CHOOSE i \in DOMAIN seq : seq[i] = x /\ \A j \in 1..(i - 1) : seq[j] # x
  ELSE 0

\* the request's distance D as an integer
Threshold == LET x == ToNumber(req.distance) IN x.n \div Pow10(x.e)

\* the normalized tokens of the request's text, the deduplicator's input
NormalizedTokens == itemsToLowercase(Tokenize(req.text.s))

Keyword(k) == req.keywords.a[k]

EditDistance(keyword, token) == LevenshteinDistance(keyword.s, token.s)

\* the clean tokens exist from the end of the stopword filter on
CleanTokensReady ==
  \/ pc \in {"waterfallDone", "parallel"}
  \/ pc = "done" /\ \E r \in Range(responses) : r.status = 200

SuccessResponses == {r \in Range(responses) : r.status = 200}

\* the number of positions where two strings of one length differ
Hamming(s, u) == Cardinality({i \in 1..Len(s) : s[i] # u[i]})

RECURSIVE SplitAtSpaces(_, _)
\* the pieces of s between single spaces
SplitAtSpaces(s, cur) ==
  IF s = <<>> THEN <<cur>>
  ELSE IF Head(s) = " " THEN <<cur>> \o SplitAtSpaces(Tail(s), <<>>)
  ELSE SplitAtSpaces(Tail(s), Append(cur, Head(s)))

\* a value that stands for an integer: as a number it has no fractional
\* part ("1", "1.0" and ["1"] do; "1a", "1.1" and undefined do not)
IsInteger(v) == LET x == ToNumber(v) IN x.t = "number" /\ x.n % Pow10(x.e) = 0

IsPositive(v) == LET x == ToNumber(v) IN x.t = "number" /\ x.n > 0

\* the only response is the validation error msg, with status 404
OnlyValidationError(msg) ==
  /\ Len(responses) = 1
  /\ responses[1].status = 404
  /\ responses[1].payload = [error |-> msg]

\* the fields as the data model of the request wants them
WellFormedRequest ==
  /\ req.text.t = "string" /\ Len(req.text.s) > 0
  /\ req.keywords.t = "array" /\ Len(req.keywords.a) > 0
  /\ \A k \in 1..Len(req.keywords.a) : req.keywords.a[k].t = "string"
  /\ req.distance # Undefined /\ IsInteger(req.distance) /\ IsPositive(req.distance)

\* a media range of the header admits application/json; no header admits
\* every type
AcceptsJson(accept) ==
  \/ accept = Undefined
  \/ \E i \in 1..Len(accept.s) :
       accept.s[i] \in {"application/json", "*/*", "application/*"}

-----------------------------------------------------------------------------
(* The properties.                                                          *)

C2_OnlyMatchedKeywords ==
  \A r \in SuccessResponses :
    /\ \A e \in Range(r.payload.keywords) : Len(e.results) > 0
    /\ \A k \in 1..Len(req.keywords.a) :
         (\E e \in Range(r.payload.keywords) : e.keyword = Keyword(k))
           <=> \E i \in 1..Len(tokenized_text) :
                 EditDistance(Keyword(k), tokenized_text[i]) <= Threshold
    /\ \A e \in Range(r.payload.keywords) : e.keyword \in Range(req.keywords.a)
    /\ DOMAIN r.payload = {"keywords", "clean_text"}
    /\ r.payload.clean_text = Str(Join(tokenized_text, <<" ">>))

\* a success response to two keywords of which one matched and one did not
C2_Witness ==
  /\ pc = "done"
  /\ SuccessResponses # {}
  /\ Len(req.keywords.a) = 2
  /\ Len(tokenized_text) > 0
  /\ \E r \in SuccessResponses : Len(r.payload.keywords) = 1

\* C3: validation reports the first failing check only, text before
\* keywords before distance, each with its message and status 404.
C3_ValidationOrder ==
  pc = "done" =>
    /\ req.text = Undefined => OnlyValidationError(NoTextMessage)
    /\ (req.text # Undefined /\ (req.keywords = Undefined \/ req.keywords.t # "array"))
         => OnlyValidationError(NoKeywordsMessage)
    /\ (/\ req.text # Undefined
        /\ req.keywords.t = "array"
        /\ \/ req.distance = Undefined
           \/ ~IsInteger(req.distance)
           \/ ~IsPositive(req.distance))
         => OnlyValidationError(NoDistanceMessage)

\* a request rejected for a distance whose leading digits parseInt reads as
\* an integer, text and keywords being valid
C3_Witness ==
  /\ pc = "done"
  /\ req.text.t = "string" /\ req.keywords.t = "array"
  /\ req.distance.t = "string"
  /\ ParseInt(req.distance) = Num(1, 0)
  /\ ~IsInteger(req.distance)
  /\ OnlyValidationError(NoDistanceMessage)

\* C4: a pipeline stage runs only for a well formed request, and an ill
\* formed request ends with a validation error alone.
C4_PipelineOnlyWhenWellFormed ==
  /\ pc \in {"itemsToLowercase", "uniqueItems", "stopWordCleaning",
             "waterfallDone", "parallel"} => WellFormedRequest
  /\ (pc = "done" /\ ~WellFormedRequest) =>
       /\ thrown = <<>>
       /\ \E msg \in {NoTextMessage, NoKeywordsMessage, NoDistanceMessage} :
            OnlyValidationError(msg)

\* C5: the clean tokens are the deduplicated tokens without the stopwords,
\* in the same order; clean_text is the clean tokens joined by single
\* spaces, and no match has a stopword as its text.
C5_StopwordsRemoved ==
  CleanTokensReady =>
    LET in == uniqueItems(NormalizedTokens)
        out == tokenized_text
    IN /\ \A x \in Range(out) : x \notin stopwords /\ x \in Range(in)
       /\ \A x \in Range(in) : x \notin stopwords => x \in Range(out)
       /\ \A i, j \in DOMAIN out :
            i < j => FirstIndex(in, out[i]) < FirstIndex(in, out[j])
       /\ \A r \in SuccessResponses :
            LET pieces == SplitAtSpaces(r.payload.clean_text.s, <<>>)
            IN /\ IF out = <<>> THEN r.payload.clean_text.s = <<>>
                  ELSE pieces = [i \in DOMAIN out |-> out[i].s]
               /\ \A i \in DOMAIN pieces : Str(pieces[i]) \notin stopwords
       /\ \A k \in 1..Len(kwResult) :
            kwResult[k] # Pending =>
              \A m \in Range(kwResult[k].results) : m.text \notin stopwords

\* a success response whose text held a stopword between two other words
C5_Witness ==
  /\ pc = "done"
  /\ \E r \in SuccessResponses :
       r.payload.clean_text = Str(<<"n", "a", " ", "n", "n">>)
  /\ NormalizedTokens = <<Str(<<"n", "a">>), Str(<<"a">>), Str(<<"n", "n">>)>>

\* C6: the deduplicator's output holds no value twice, holds the values of
\* its input, and lists them in the order of their first occurrence.
C6_DedupFirstOccurrence ==
  pc = "stopWordCleaning" =>
    LET in == NormalizedTokens
        out == tokenized_text
    IN /\ \A i, j \in DOMAIN out : i # j => out[i] # out[j]
       /\ Range(out) = Range(in)
       /\ \A i, j \in DOMAIN out :
            i < j => FirstIndex(in, out[i]) < FirstIndex(in, out[j])

\* the deduplicator has run on x, y, x
C6_Witness ==
  /\ pc = "stopWordCleaning"
  /\ Len(NormalizedTokens) = 3
  /\ NormalizedTokens[1] = NormalizedTokens[3]
  /\ NormalizedTokens[1] # NormalizedTokens[2]
  /\ Len(tokenized_text) = 2

\* the clean tokens as a function of the request alone
CleanTokensOf(text) ==
  stopWordCleaning(uniqueItems(itemsToLowercase(Tokenize(text.s))))

\* the entry of keyword number k when its tokens are taken one after the
\* other, in clean-token order
SequentialEntry(k) ==
  LET toks == CleanTokensOf(req.text)
      all == [i \in 1..Len(toks) |->
                [text |-> toks[i], distance |-> EditDistance(Keyword(k), toks[i])]]
  IN [keyword |-> Keyword(k),
      results |-> SelectSeq(all, LAMBDA m : m.distance <= Threshold)]

\* the payload when the keywords are taken one after the other, in input
\* order
SequentialPayload ==
  [keywords |-> SelectSeq([k \in 1..Len(req.keywords.a) |-> SequentialEntry(k)],
                          LAMBDA e : e.results # <<>>),
   clean_text |-> Str(Join(CleanTokensOf(req.text), <<" ">>))]

\* C7: whatever the order in which the distance tasks and the keyword tasks
\* complete, a completed keyword's entry and the success payload are those
\* of the sequential evaluation: entries in input keyword order, matches in
\* clean-token order, one payload per request.
C7_CompletionOrderIrrelevant ==
  /\ \A k \in 1..Len(kwResult) :
       kwResult[k] # Pending => kwResult[k] = SequentialEntry(k)
  /\ \A r \in SuccessResponses : r.payload = SequentialPayload
  /\ Len(responses) <= 1

\* the second keyword's task has completed before the first one's, whose
\* second token was compared before its first; both keywords match both
\* tokens
C7_Witness ==
  /\ pc = "parallel"
  /\ Len(kwResult) = 2 /\ Len(tokenized_text) = 2
  /\ kwResult[1] = Pending
  /\ kwResult[2] # Pending /\ Len(kwResult[2].results) = 2
  /\ taskResult[1][1] = Pending
  /\ taskResult[1][2] # Pending
  /\ Len(SequentialEntry(1).results) = 2

\* C8: when a pipeline stage fails the request is answered once, with
\* status 404 and a body {error: ...}, and with no success payload.
C8_StageFailureIs404 ==
  thrown # <<>> =>
    /\ Len(responses) = 1
    /\ responses[1].status = 404
    /\ DOMAIN responses[1].payload = {"error"}

\* C9: every request is answered with the JSON encoding of its payload, as
\* application/json unless the Accept header excludes application/json,
\* and then as text/plain.
C9_JsonUnlessExcluded ==
  pc = "done" =>
    /\ Len(responses) = 1
    /\ \A r \in Range(responses) :
         /\ r.body = JSONStringify(r.payload)
         /\ r.type = IF AcceptsJson(req.accept)
                     THEN "application/json; charset=utf-8"
                     ELSE "text/plain; charset=utf-8"

\* C10: the returned entries carry the input keywords as given, one entry
\* per matching occurrence, and a keyword that differs from a clean token
\* in letter case alone is at a distance equal to the number of differing
\* characters: a match when that is within the threshold, none otherwise.
C10_KeywordsVerbatim ==
  /\ \A r \in SuccessResponses :
       /\ \A e \in Range(r.payload.keywords) : e.keyword \in Range(req.keywords.a)
       /\ \A v \in Range(req.keywords.a) :
            Cardinality({j \in DOMAIN r.payload.keywords :
                           r.payload.keywords[j].keyword = v})
              = IF \E i \in 1..Len(tokenized_text) :
                     EditDistance(v, tokenized_text[i]) <= Threshold
                THEN Cardinality({k \in DOMAIN req.keywords.a : Keyword(k) = v})
                ELSE 0
  /\ \A k \in 1..Len(kwResult) :
       kwResult[k] # Pending =>
         \A i \in 1..Len(tokenized_text) :
           (/\ ToLowerCase(Keyword(k).s) = tokenized_text[i].s
            /\ Keyword(k).s # tokenized_text[i].s)
             => LET h == Hamming(Keyword(k).s, tokenized_text[i].s)
                IN /\ h > 0
                   /\ h <= Threshold =>
                        [text |-> tokenized_text[i], distance |-> h]
                          \in Range(kwResult[k].results)
                   /\ h > Threshold =>
                        \A m \in Range(kwResult[k].results) :
                          m.text # tokenized_text[i]

\* a success response to the same keyword given twice, in capitals, with
\* the token that is its lower case at distance 2
C10_Witness ==
  /\ pc = "done"
  /\ \E r \in SuccessResponses :
       /\ Len(r.payload.keywords) = 2
       /\ r.payload.keywords[1].keyword = Str(<<"N", "A">>)
       /\ r.payload.keywords[2].keyword = Str(<<"N", "A">>)
       /\ [text |-> Str(<<"n", "a">>), distance |-> 2]
            \in Range(r.payload.keywords[1].results)

====
